---- MODULE Spec2Model ----
(***************************************************************************)
(* Accuracy verification of the Polymarket BTC 15m signal bot.             *)
(*                                                                         *)
(* The four analysis scripts (verify_accuracy.py, analyze_24h.py,          *)
(* analyze_48h.py, analyze_new.py) share one pipeline:                     *)
(*   load -> group_signals_by_window -> fetch_binance_klines ->            *)
(*   scoring loop (determine_vote per window) -> report.                   *)
(* The variable script says which of the four is running; every           *)
(* definition that differs between the scripts takes it as a parameter.    *)
(*                                                                         *)
(* Strings that the code searches with the `in` operator are looked up in  *)
(* Chars, which gives their characters; `in` is a real substring search.   *)
(* Timestamps are [ms, frac]: the whole milliseconds below the instant     *)
(* (floor) and whether a sub-millisecond part remains. Prices are decimal  *)
(* strings, parsed into hundredths. The report is kept as the accuracy     *)
(* figures it prints, by bucket.                                           *)
(***************************************************************************)
EXTENDS Integers, Sequences, FiniteSets, TLC

VARIABLES
    script,         \* which script runs
    df,             \* the loaded signal rows (df / df_new), in file order
    source,         \* the outcome source: open time -> [open, close]
    pc,             \* position of main()
    windows,        \* active_windows: window start -> list of signal dicts
    klines,         \* all_klines / klines: open time -> outcome
    current_start,  \* startTime of the next request of the paginated fetch
    requests,       \* the requests sent so far, [startTime, endTime]
    results,        \* the bucket registry: key -> [correct, wrong]
    by_hour,        \* results['by_hour']: hour -> [correct, wrong]
    by_day,         \* results['by_day']: <<month, day>> -> [correct, wrong]
    details,        \* results['total']['details'] / results_detail
    total,          \* verify_accuracy.py's separate counter total
    pos,            \* index of the scoring loop in sorted_windows
    fn_in,          \* argument of the function under test (function specs)
    fn_out,         \* its result
    printed         \* the accuracy figures of the report that was printed

vars == <<script, df, source, pc, windows, klines, current_start, requests,
          results, by_hour, by_day, details, total, pos, fn_in, fn_out,
          printed>>

-----------------------------------------------------------------------------
(* Program constants *)

window_size == 900000

PageLimit == 1000

HTTP_OK == 200

Scripts == {"verify_accuracy", "analyze_24h", "analyze_48h", "analyze_new"}

Paginated == {"analyze_24h", "analyze_48h", "analyze_new"}

-----------------------------------------------------------------------------
(* Strings *)

Chars(s) ==
    CASE s = "UP"            -> <<"U","P">>
      [] s = "DOWN"          -> <<"D","O","W","N">>
      [] s = "STRONG"        -> <<"S","T","R","O","N","G">>
      [] s = "GOOD"          -> <<"G","O","O","D">>
      [] s = "OPTIONAL"      -> <<"O","P","T","I","O","N","A","L">>
      [] s = "EARLY"         -> <<"E","A","R","L","Y">>
      [] s = "MID"           -> <<"M","I","D">>
      [] s = "LATE"          -> <<"L","A","T","E">>
      [] s = "BUY UP"        -> <<"B","U","Y"," ","U","P">>
      [] s = "BUY DOWN"      -> <<"B","U","Y"," ","D","O","W","N">>
      [] s = "NO TRADE"      -> <<"N","O"," ","T","R","A","D","E">>
      [] s = "UP_OR_DOWN"    -> <<"U","P","_","O","R","_","D","O","W","N">>
      [] s = "STRONG_EARLY"  -> <<"S","T","R","O","N","G","_","E","A","R","L","Y">>
      [] s = "STRONG_LATE"   -> <<"S","T","R","O","N","G","_","L","A","T","E">>
      [] s = "GOOD_MID"      -> <<"G","O","O","D","_","M","I","D">>
      [] s = "OPTIONAL_LATE" -> <<"O","P","T","I","O","N","A","L","_","L","A","T","E">>
      [] s = "NO_TRADE"      -> <<"N","O","_","T","R","A","D","E">>
      [] s = "STRONG_GOOD_LATE" ->
             <<"S","T","R","O","N","G","_","G","O","O","D","_","L","A","T","E">>
      [] s = "GOOD_EARLY_LATE" ->
             <<"G","O","O","D","_","E","A","R","L","Y","_","L","A","T","E">>
      [] s = "100.00"        -> <<"1","0","0",".","0","0">>
      [] s = "100.0"         -> <<"1","0","0",".","0">>
      [] s = "105.00"        -> <<"1","0","5",".","0","0">>
      [] s = "100.01"        -> <<"1","0","0",".","0","1">>
      [] s = "99.5"          -> <<"9","9",".","5">>
      [] s = "9.75"          -> <<"9",".","7","5">>
      [] s = "0.5"           -> <<"0",".","5">>
      [] s = "1000"          -> <<"1","0","0","0">>

\* Python's `needle in hay` on two str values.
Contains(needle, hay) ==
    \E i \in 1..(Len(hay) - Len(needle) + 1) :
        SubSeq(hay, i, i + Len(needle) - 1) = needle

In(needle, hay) == Contains(Chars(needle), Chars(hay))

-----------------------------------------------------------------------------
(* Window Indexer *)

\* int(ts.timestamp() * 1000): int() truncates toward zero.
ts_ms_of(ts) == IF ts.frac /\ ts.ms < 0 THEN ts.ms + 1 ELSE ts.ms

\* get_window_start with a remainder that takes the sign of the dividend.
get_window_start_truncating(ts) ==
    LET ts_ms == ts_ms_of(ts)
        rem   == IF ts_ms >= 0 THEN ts_ms % window_size
                 ELSE 0 - ((0 - ts_ms) % window_size)
    IN  ts_ms - rem

\* get_window_start that returns the end of the window, not its start.
get_window_start_window_end(ts) ==
    LET ts_ms == ts_ms_of(ts)
    IN  ts_ms - (ts_ms % window_size) + window_size

get_window_start(ts) ==
    LET ts_ms == ts_ms_of(ts)
    IN  ts_ms - (ts_ms % window_size)

-----------------------------------------------------------------------------
(* Signal Aggregator *)

\* The dict appended for one row; verify_accuracy.py keeps no regime.
signal_entry(scr, row) ==
    IF scr = "verify_accuracy"
    THEN [signal |-> row.signal, rec |-> row.recommendation]
    ELSE [signal |-> row.signal, rec |-> row.recommendation,
          regime |-> row.regime]

\* append_to that inserts the entry at the head of the window's list.
prepend_to(wins, ws, entry) ==
    [k \in DOMAIN wins \cup {ws} |->
        IF k = ws
        THEN <<entry>> \o (IF ws \in DOMAIN wins THEN wins[ws] ELSE <<>>)
        ELSE wins[k]]

\* windows[window_start].append(entry) on a defaultdict(list).
append_to(wins, ws, entry) ==
    [k \in DOMAIN wins \cup {ws} |->
        IF k = ws
        THEN Append(IF ws \in DOMAIN wins THEN wins[ws] ELSE <<>>, entry)
        ELSE wins[k]]

\* group_rows without the test of the recommendation: every row is kept.
RECURSIVE group_rows_unfiltered(_, _, _, _)
group_rows_unfiltered(scr, rows, i, wins) ==
    IF i > Len(rows) THEN wins
    ELSE group_rows_unfiltered(scr, rows, i + 1,
             append_to(wins, get_window_start(rows[i].timestamp),
                       signal_entry(scr, rows[i])))

RECURSIVE group_rows(_, _, _, _)
group_rows(scr, rows, i, wins) ==
    IF i > Len(rows) THEN wins
    ELSE LET row == rows[i]
             rec == row.recommendation
         IN  IF In("STRONG", rec) \/ In("GOOD", rec)
             THEN group_rows(scr, rows, i + 1,
                      append_to(wins, get_window_start(row.timestamp),
                                signal_entry(scr, row)))
             ELSE group_rows(scr, rows, i + 1, wins)

group_signals_by_window(scr, rows) == group_rows(scr, rows, 1, <<>>)

\* active_windows = {k: v for k, v in windows.items() if len(v) > 0}
active_of(wins) ==
    LET keep == {k \in DOMAIN wins : Len(wins[k]) > 0}
    IN  [k \in keep |-> wins[k]]

RECURSIVE sorted(_)
sorted(S) ==
    IF S = {} THEN <<>>
    ELSE LET m == CHOOSE x \in S : \A y \in S : x <= y
         IN  <<m>> \o sorted(S \ {m})

-----------------------------------------------------------------------------
(* Vote Resolver *)

\* analyze_24h.py, verify_accuracy.py: if 'UP' in ... elif 'DOWN' in ...
up_count_elif(signals) ==
    Cardinality({i \in 1..Len(signals) : In("UP", signals[i].signal)})

down_count_elif(signals) ==
    Cardinality({i \in 1..Len(signals) :
        ~In("UP", signals[i].signal) /\ In("DOWN", signals[i].signal)})

\* analyze_48h.py, analyze_new.py: two independent sums
up_count_sum(signals) ==
    Cardinality({i \in 1..Len(signals) : In("UP", signals[i].signal)})

down_count_sum(signals) ==
    Cardinality({i \in 1..Len(signals) : In("DOWN", signals[i].signal)})

majority(up, down) ==
    IF up > down THEN "UP"
    ELSE IF down > up THEN "DOWN"
    ELSE "NEUTRAL"

determine_vote(scr, signals) ==
    IF scr \in {"analyze_24h", "verify_accuracy"}
    THEN majority(up_count_elif(signals), down_count_elif(signals))
    ELSE majority(up_count_sum(signals), down_count_sum(signals))

-----------------------------------------------------------------------------
(* Outcome Provider Adapter *)

digit(c) ==
    CASE c = "0" -> 0 [] c = "1" -> 1 [] c = "2" -> 2 [] c = "3" -> 3
      [] c = "4" -> 4 [] c = "5" -> 5 [] c = "6" -> 6 [] c = "7" -> 7
      [] c = "8" -> 8 [] c = "9" -> 9

\* The number a sequence of decimal digits denotes.
RECURSIVE digits_value(_)
digits_value(ds) ==
    IF ds = <<>> THEN 0
    ELSE 10 * digits_value(SubSeq(ds, 1, Len(ds) - 1)) + digit(ds[Len(ds)])

\* float(k[i]) of a price string of the response, which has at most two
\* decimals here: the number it denotes, in hundredths.
float(s) ==
    LET cs   == Chars(s)
        dots == {i \in 1..Len(cs) : cs[i] = "."}
        dot  == IF dots = {} THEN Len(cs) + 1 ELSE CHOOSE i \in dots : TRUE
        ip   == SubSeq(cs, 1, dot - 1)
        fp   == SubSeq(SubSeq(cs, dot + 1, Len(cs)) \o <<"0", "0">>, 1, 2)
    IN  100 * digits_value(ip) + digits_value(fp)

\* outcome_of with `>=` for `>`: a candle that closes where it opened is UP.
outcome_of_ties_up(candle) ==
    [open |-> float(candle.open), close |-> float(candle.close),
     result |-> IF float(candle.close) >= float(candle.open)
                THEN "UP" ELSE "DOWN"]

\* One candle of the response turned into the stored outcome.
outcome_of(candle) ==
    [open |-> float(candle.open), close |-> float(candle.close),
     result |-> IF float(candle.close) > float(candle.open)
                THEN "UP" ELSE "DOWN"]

\* The source's answer to {startTime, endTime, limit}: its candles with
\* startTime <= open time <= endTime, oldest first, at most limit of them.
page_of(src, startTime, endTime, limit) ==
    LET inRange == {t \in DOMAIN src : startTime <= t /\ t <= endTime}
    IN  {t \in inRange : Cardinality({u \in inRange : u < t}) < limit}

\* for k in data: all_klines[open_time] = {...}
store_page(kl, src, page) ==
    [t \in DOMAIN kl \cup page |->
        IF t \in page THEN outcome_of(src[t]) ELSE kl[t]]

max_key(kl) == CHOOSE t \in DOMAIN kl : \A u \in DOMAIN kl : u <= t

min2(a, b) == IF a < b THEN a ELSE b

max2(a, b) == IF a > b THEN a ELSE b

\* params of one request of the paginated fetch
request_of(cur, end_time) ==
    [startTime |-> cur,
     endTime |-> min2(cur + PageLimit * window_size, end_time)]

\* One line of the request log: the request, the status of its response
\* and the open times of the candles in it.
sent(req, status, got) ==
    [startTime |-> req.startTime, endTime |-> req.endTime,
     status |-> status, got |-> got]

\* next_start with the next request one millisecond after the last candle.
next_start_plus_one(kl) == max_key(kl) + 1

next_start(kl) == max_key(kl) + window_size

-----------------------------------------------------------------------------
(* Scoring Engine *)

Zero == [correct |-> 0, wrong |-> 0]

bucket_keys(scr) ==
    CASE scr = "analyze_24h" ->
           {"total", "STRONG", "GOOD", "EARLY", "MID", "LATE", "TREND_UP",
            "TREND_DOWN", "RANGE", "CHOP", "UP_vote", "DOWN_vote"}
      [] scr = "analyze_48h" ->
           {"total", "STRONG", "GOOD", "OPTIONAL", "EARLY", "MID", "LATE",
            "UP_vote", "DOWN_vote", "TREND_UP", "TREND_DOWN", "RANGE", "CHOP"}
      [] scr = "analyze_new" ->
           {"total", "STRONG", "GOOD", "EARLY", "MID", "LATE", "UP_vote",
            "DOWN_vote", "TREND_UP", "TREND_DOWN"}
      [] scr = "verify_accuracy" -> {"total"}

\* Keys of the results dict that hold a defaultdict, not a bucket.
dict_keys(scr) ==
    CASE scr = "analyze_24h" -> {"by_hour"}
      [] scr = "analyze_48h" -> {"by_hour", "by_day"}
      [] OTHER -> {}

\* init_results with the registry kept from one call to the next, as a
\* module-level accumulator would be.
init_results_carried(scr) ==
    IF results = <<>> THEN [k \in bucket_keys(scr) |-> [correct |-> 0, wrong |-> 0]]
    ELSE results

init_results(scr) == [k \in bucket_keys(scr) |-> Zero]

stat_keys == {"STRONG", "GOOD", "EARLY", "MID", "LATE"}

\* bump that keeps a net score: a wrong window is taken off correct.
bump_net(b, ok) ==
    IF ok THEN [b EXCEPT !.correct = @ + 1]
    ELSE [b EXCEPT !.correct = @ - 1, !.wrong = @ + 1]

\* if is_correct: b['correct'] += 1 else: b['wrong'] += 1
bump(b, ok) ==
    IF ok THEN [b EXCEPT !.correct = @ + 1] ELSE [b EXCEPT !.wrong = @ + 1]

bump_key(res, key, ok) == [res EXCEPT ![key] = bump(@, ok)]

\* the same on a defaultdict(lambda: {'correct': 0, 'wrong': 0})
bump_default(d, key, ok) ==
    [k \in DOMAIN d \cup {key} |->
        IF k = key THEN bump(IF key \in DOMAIN d THEN d[key] ELSE Zero, ok)
        ELSE d[k]]

\* datetime.utcfromtimestamp(window_start / 1000).hour
hour_of(ws) == ((ws \div 1000) \div 3600) % 24

minute_of(ws) == ((ws \div 1000) \div 60) % 60

\* strftime("%m-%d") of the UTC date of ws, as <<month, day>>
date_str(ws) ==
    LET z    == ((ws \div 1000) \div 86400) + 719468
        era  == z \div 146097
        doe  == z - era * 146097
        yoe  == (doe - doe \div 1460 + doe \div 36524 - doe \div 146096) \div 365
        doy  == doe - (365 * yoe + yoe \div 4 - yoe \div 100)
        mp   == (5 * doy + 2) \div 153
        day  == doy - (153 * mp + 2) \div 5 + 1
        mon  == IF mp < 10 THEN mp + 3 ELSE mp - 9
    IN  <<mon, day>>

RECURSIVE first_of(_, _, _)
first_of(keys, i, rec) ==
    IF i > Len(keys) THEN ""
    ELSE IF In(keys[i], rec) THEN keys[i]
    ELSE first_of(keys, i + 1, rec)

RECURSIVE bump_all_in(_, _, _, _, _)
bump_all_in(res, keys, i, rec, ok) ==
    IF i > Len(keys) THEN res
    ELSE bump_all_in(IF In(keys[i], rec) THEN bump_key(res, keys[i], ok) ELSE res,
                     keys, i + 1, rec, ok)

\* if regime in results: results[regime][bucket] += 1
\* A key that holds a defaultdict gives it back a dict to add 1 to: TypeError.
regime_update(scr, res, regime, ok) ==
    IF regime \in DOMAIN res
    THEN [res |-> bump_key(res, regime, ok), err |-> FALSE]
    ELSE [res |-> res, err |-> regime \in dict_keys(scr)]

\* The body of `for s in signals` of the scoring loop, for one s.
score_signal(scr, res, s, ok) ==
    CASE scr = "analyze_24h" ->
           LET key    == first_of(<<"STRONG", "GOOD">>, 1, s.rec)
               timing == first_of(<<"EARLY", "MID", "LATE">>, 1, s.rec)
           IN  IF key = "" THEN [res |-> res, err |-> FALSE]
               ELSE IF timing = ""
                    THEN [res |-> bump_key(res, key, ok), err |-> FALSE]
                    ELSE regime_update(scr,
                             bump_key(bump_key(res, key, ok), timing, ok),
                             s.regime, ok)
      [] scr = "analyze_48h" ->
           LET key    == first_of(<<"STRONG", "GOOD", "OPTIONAL">>, 1, s.rec)
               timing == first_of(<<"EARLY", "MID", "LATE">>, 1, s.rec)
               r1     == IF key = "" THEN res ELSE bump_key(res, key, ok)
               r2     == IF timing = "" THEN r1 ELSE bump_key(r1, timing, ok)
           IN  regime_update(scr, r2, s.regime, ok)
      [] scr = "analyze_new" ->
           LET key == first_of(<<"STRONG", "GOOD">>, 1, s.rec)
               r1  == IF key = "" THEN res ELSE bump_key(res, key, ok)
               r2  == bump_all_in(r1, <<"EARLY", "MID", "LATE">>, 1, s.rec, ok)
           IN  [res |-> IF s.regime \in {"TREND_UP", "TREND_DOWN"}
                        THEN bump_key(r2, s.regime, ok) ELSE r2,
                err |-> FALSE]
      [] scr = "verify_accuracy" ->
           LET key    == first_of(<<"STRONG", "GOOD">>, 1, s.rec)
               timing == first_of(<<"EARLY", "MID", "LATE">>, 1, s.rec)
           IN  IF key = "" THEN [res |-> res, err |-> FALSE]
               ELSE IF timing = ""
                    THEN [res |-> bump_key(res, key, ok), err |-> FALSE]
                    ELSE [res |-> bump_key(bump_key(res, key, ok), timing, ok),
                          err |-> FALSE]

RECURSIVE score_signals(_, _, _, _, _)
score_signals(scr, res, signals, i, ok) ==
    IF i > Len(signals) THEN [res |-> res, err |-> FALSE]
    ELSE LET one == score_signal(scr, res, signals[i], ok)
         IN  IF one.err THEN one
             ELSE score_signals(scr, one.res, signals, i + 1, ok)

\* The updates of one scored window before its per-signal loop.
score_window_head(scr, res, vote, ok) ==
    LET r1 == bump_key(res, "total", ok)
    IN  IF scr = "verify_accuracy" THEN r1
        ELSE bump_key(r1, IF vote = "UP" THEN "UP_vote" ELSE "DOWN_vote", ok)

detail_entry(scr, ws, vote, kline, ok, signals) ==
    CASE scr = "analyze_24h" ->
           [time |-> ws, vote |-> vote, result |-> kline.result, correct |-> ok,
            open |-> kline.open, close |-> kline.close]
      [] scr = "verify_accuracy" ->
           [time |-> <<hour_of(ws), minute_of(ws)>>, vote |-> vote,
            result |-> kline.result, correct |-> ok,
            num_signals |-> Len(signals)]
      [] OTHER ->
           [time |-> ws, vote |-> vote, result |-> kline.result, correct |-> ok]

\* verify_accuracy.py: analyze_by_recommendation_type(windows, klines)
RECURSIVE analyze_by_recommendation_type(_, _, _, _)
analyze_by_recommendation_type(stats, keys, wins, kl) ==
    IF keys = {} THEN stats
    ELSE LET ws   == CHOOSE k \in keys : TRUE
             vote == determine_vote("verify_accuracy", wins[ws])
         IN  IF ws \notin DOMAIN kl \/ vote = "NEUTRAL"
             THEN analyze_by_recommendation_type(stats, keys \ {ws}, wins, kl)
             ELSE analyze_by_recommendation_type(
                      score_signals("verify_accuracy", stats, wins[ws], 1,
                                    vote = kl[ws].result).res,
                      keys \ {ws}, wins, kl)

-----------------------------------------------------------------------------
(* The report *)

\* f"{c / t * 100:.{d}f}" as the integer it shows without the point:
\* c / t * 100 rounded to d decimals, a tie to the even digit.
format_pct(c, t, d) ==
    LET scale == IF d = 2 THEN 10000 ELSE 1000
        q     == (scale * c) \div t
        r     == (scale * c) % t
    IN  IF 2 * r > t THEN q + 1
        ELSE IF 2 * r = t THEN q + (q % 2)
        ELSE q

count_of(b) == b.correct + b.wrong

\* t = c + w; if t > 0: acc = c / t * 100; print(...)
\* The keys of reg whose line is printed, each with its percentage.
shown(reg, keys, d) ==
    [k \in {x \in keys : count_of(reg[x]) > 0} |->
        [pct |-> format_pct(reg[k].correct, count_of(reg[k]), d)]]

\* analyze_new.py's strength lines: a percentage, or "Sin datos".
shown_or_sin_datos(reg, keys) ==
    [k \in keys |->
        IF count_of(reg[k]) > 0
        THEN [pct |-> format_pct(reg[k].correct, count_of(reg[k]), 1)]
        ELSE [text |-> "Sin datos"]]

\* The rows of the historical comparison table:
\* results[k]['correct'] / max(1, correct + wrong) * 100
comparison(reg) ==
    [k \in {"STRONG", "GOOD", "UP_vote", "DOWN_vote"} |->
        [pct |-> format_pct(reg[k].correct, max2(1, count_of(reg[k])), 1)]]

merged(f, g) ==
    [k \in DOMAIN f \cup DOMAIN g |-> IF k \in DOMAIN f THEN f[k] ELSE g[k]]

\* Nothing with a percentage is printed: the run had no scored window.
no_figures ==
    [lines |-> <<>>, by_hour |-> <<>>, by_day |-> <<>>, comparison |-> <<>>]

\* The accuracy figures that the report prints, by bucket.
report(scr, res, bh, bd) ==
    LET tot  == count_of(res["total"])
        rest == DOMAIN res \ {"total"}
        head == shown(res, {"total"}, 2)
    IN  CASE scr = "analyze_24h" ->
               [lines |-> merged(head, shown(res, rest, 1)),
                by_hour |-> shown(bh, DOMAIN bh, 1),
                by_day |-> <<>>, comparison |-> <<>>]
          [] scr = "analyze_48h" ->
               IF tot = 0 THEN no_figures
               ELSE [lines |-> merged(head, shown(res, rest, 1)),
                     by_hour |-> shown(bh, DOMAIN bh, 1),
                     by_day |-> shown(bd, DOMAIN bd, 1),
                     comparison |-> comparison(res)]
          [] scr = "analyze_new" ->
               IF tot = 0 THEN no_figures
               ELSE [lines |-> merged(head,
                                  merged(shown_or_sin_datos(res, {"STRONG", "GOOD"}),
                                         shown(res, rest \ {"STRONG", "GOOD"}, 1))),
                     by_hour |-> <<>>, by_day |-> <<>>,
                     comparison |-> comparison(res)]
          [] scr = "verify_accuracy" ->
               IF tot = 0 THEN no_figures
               ELSE [lines |-> merged(head, shown(res, rest, 1)),
                     by_hour |-> <<>>, by_day |-> <<>>, comparison |-> <<>>]

-----------------------------------------------------------------------------
(* main(): the run *)

sorted_windows == sorted(DOMAIN windows)

fetch_start == sorted_windows[1]

fetch_end == sorted_windows[Len(sorted_windows)] + window_size

\* if len(df_new) == 0: return   (analyze_48h.py, analyze_new.py)
NoData ==
    /\ pc = "load"
    /\ script \in {"analyze_48h", "analyze_new"}
    /\ Len(df) = 0
    /\ pc' = "returned"
    /\ UNCHANGED <<script, df, source, windows, klines, current_start,
                   requests, results, by_hour, by_day, details, total, pos,
                   fn_in, fn_out,
                   printed>>

\* windows = group_signals_by_window(df); active_windows = {...}
Group ==
    /\ pc = "load"
    /\ script \in {"analyze_48h", "analyze_new"} => Len(df) # 0
    /\ windows' = active_of(group_signals_by_window(script, df))
    /\ pc' = "grouped"
    /\ UNCHANGED <<script, df, source, klines, current_start, requests,
                   results, by_hour, by_day, details, total, pos, fn_in,
                   fn_out,
                   printed>>

\* NoActionable without the return: main() goes on to the scoring loop.
NoActionable_goes_on ==
    /\ pc = "grouped"
    /\ DOMAIN windows = {}
    /\ pc' = "score"
    /\ results' = [k \in {"total"} |-> [correct |-> 0, wrong |-> 0]]
    /\ pos' = 1
    /\ UNCHANGED <<script, df, source, windows, klines, current_start,
                   requests, by_hour, by_day, details, total, fn_in, fn_out,
                   printed>>

\* if len(active_windows) == 0: return
NoActionable ==
    /\ pc = "grouped"
    /\ DOMAIN windows = {}
    /\ pc' = "returned"
    /\ UNCHANGED <<script, df, source, windows, klines, current_start,
                   requests, results, by_hour, by_day, details, total, pos,
                   fn_in, fn_out,
                   printed>>

\* klines = fetch_binance_klines(fetch_start, fetch_end): entry
BeginFetch ==
    /\ pc = "grouped"
    /\ DOMAIN windows # {}
    /\ current_start' = fetch_start
    /\ pc' = "fetch"
    /\ UNCHANGED <<script, df, source, windows, klines, requests, results,
                   by_hour, by_day, details, total, pos, fn_in, fn_out,
                   printed>>

\* The fetch returns and the scoring loop is set up.
enter_scoring ==
    /\ pc' = "score"
    /\ results' = init_results(script)
    /\ pos' = 1

\* while current_start < end_time: false
FetchLoopExit ==
    /\ pc = "fetch"
    /\ script \in Paginated
    /\ ~(current_start < fetch_end)
    /\ enter_scoring
    /\ UNCHANGED <<script, df, source, windows, klines, current_start,
                   requests, by_hour, by_day, details, total, fn_in, fn_out,
                   printed>>

\* FetchFail with verify_accuracy.py's raise in place of the break.
FetchFail_raises ==
    /\ pc = "fetch"
    /\ script \in Paginated
    /\ current_start < fetch_end
    /\ requests' = Append(requests,
           sent(request_of(current_start, fetch_end), 500, {}))
    /\ pc' = "raised"
    /\ UNCHANGED <<script, df, source, windows, klines, current_start,
                   results, by_hour, by_day, details, total, pos, fn_in,
                   fn_out,
                   printed>>

\* if response.status_code != 200: break
FetchFail ==
    /\ pc = "fetch"
    /\ script \in Paginated
    /\ current_start < fetch_end
    /\ \E status \in {500} :
        /\ status # HTTP_OK
        /\ requests' = Append(requests,
               sent(request_of(current_start, fetch_end), status, {}))
        /\ enter_scoring
    /\ UNCHANGED <<script, df, source, windows, klines, current_start,
                   by_hour, by_day, details, total, fn_in, fn_out,
                   printed>>

\* FetchEmpty that returns an empty map instead of what was fetched.
FetchEmpty_discards ==
    /\ pc = "fetch"
    /\ script \in Paginated
    /\ current_start < fetch_end
    /\ LET req  == request_of(current_start, fetch_end)
           data == page_of(source, req.startTime, req.endTime, PageLimit)
       IN  /\ data = {}
           /\ requests' = Append(requests, sent(req, HTTP_OK, data))
    /\ klines' = <<>>
    /\ pc' = "score"
    /\ results' = [k \in {"total", "STRONG", "GOOD", "OPTIONAL", "EARLY", "MID",
                          "LATE", "UP_vote", "DOWN_vote", "TREND_UP",
                          "TREND_DOWN", "RANGE", "CHOP"} |->
                      [correct |-> 0, wrong |-> 0]]
    /\ pos' = 1
    /\ UNCHANGED <<script, df, source, windows, current_start, by_hour,
                   by_day, details, total, fn_in, fn_out,
                   printed>>

\* data = response.json(); if not data: break
FetchEmpty ==
    /\ pc = "fetch"
    /\ script \in Paginated
    /\ current_start < fetch_end
    /\ LET req  == request_of(current_start, fetch_end)
           data == page_of(source, req.startTime, req.endTime, PageLimit)
       IN  /\ data = {}
           /\ requests' = Append(requests, sent(req, HTTP_OK, data))
           /\ enter_scoring
    /\ UNCHANGED <<script, df, source, windows, klines, current_start,
                   by_hour, by_day, details, total, fn_in, fn_out,
                   printed>>

\* for k in data: ...; current_start = max(all_klines.keys()) + 15 * 60 * 1000
FetchPage ==
    /\ pc = "fetch"
    /\ script \in Paginated
    /\ current_start < fetch_end
    /\ LET req  == request_of(current_start, fetch_end)
           data == page_of(source, req.startTime, req.endTime, PageLimit)
       IN  /\ data # {}
           /\ requests' = Append(requests, sent(req, HTTP_OK, data))
           /\ klines' = store_page(klines, source, data)
           /\ current_start' = next_start(klines')
    /\ UNCHANGED <<script, df, source, pc, windows, results, by_hour, by_day,
                   details, total, pos, fn_in, fn_out,
                   printed>>

\* verify_accuracy.py: raise Exception(f"Error Binance: ...")
FetchRaise ==
    /\ pc = "fetch"
    /\ script = "verify_accuracy"
    /\ \E status \in {500} :
        /\ status # HTTP_OK
        /\ requests' = Append(requests,
               sent([startTime |-> fetch_start, endTime |-> fetch_end],
                    status, {}))
        /\ pc' = "raised"
    /\ UNCHANGED <<script, df, source, windows, klines, current_start,
                   results, by_hour, by_day, details, total, pos, fn_in,
                   fn_out,
                   printed>>

\* verify_accuracy.py: the single request, status 200
FetchOnce ==
    /\ pc = "fetch"
    /\ script = "verify_accuracy"
    /\ LET data == page_of(source, fetch_start, fetch_end, PageLimit)
       IN  /\ requests' = Append(requests,
                  sent([startTime |-> fetch_start, endTime |-> fetch_end],
                       HTTP_OK, data))
           /\ klines' = store_page(<<>>, source, data)
    /\ enter_scoring
    /\ UNCHANGED <<script, df, source, windows, current_start, by_hour,
                   by_day, details, total, fn_in, fn_out,
                   printed>>

this_window == sorted_windows[pos]

this_vote == determine_vote(script, windows[this_window])

in_loop == pc = "score" /\ pos <= Len(sorted_windows)

\* SkipNoOutcome with break in place of continue.
SkipNoOutcome_breaks ==
    /\ pc = "score"
    /\ pos <= Len(sorted(DOMAIN windows))
    /\ sorted(DOMAIN windows)[pos] \notin DOMAIN klines
    /\ pos' = Len(sorted(DOMAIN windows)) + 1
    /\ UNCHANGED <<script, df, source, pc, windows, klines, current_start,
                   requests, results, by_hour, by_day, details, total, fn_in,
                   fn_out,
                   printed>>

\* kline = klines.get(window_start); if not kline: continue
SkipNoOutcome ==
    /\ in_loop
    /\ this_window \notin DOMAIN klines
    /\ pos' = pos + 1
    /\ UNCHANGED <<script, df, source, pc, windows, klines, current_start,
                   requests, results, by_hour, by_day, details, total, fn_in,
                   fn_out,
                   printed>>

\* The loop body without the NEUTRAL test: the window is scored, and
\* vote == kline['result'] is false for it.
SkipNeutral_scored ==
    /\ in_loop
    /\ this_window \in DOMAIN klines
    /\ this_vote = "NEUTRAL"
    /\ results' = bump_key(results, "total", FALSE)
    /\ pos' = pos + 1
    /\ UNCHANGED <<script, df, source, pc, windows, klines, current_start,
                   requests, by_hour, by_day, details, total, fn_in, fn_out,
                   printed>>

\* if vote == 'NEUTRAL': continue
SkipNeutral ==
    /\ in_loop
    /\ this_window \in DOMAIN klines
    /\ this_vote = "NEUTRAL"
    /\ pos' = pos + 1
    /\ UNCHANGED <<script, df, source, pc, windows, klines, current_start,
                   requests, results, by_hour, by_day, details, total, fn_in,
                   fn_out,
                   printed>>

\* The rest of the loop body: one window is scored.
ScoreWindow ==
    /\ in_loop
    /\ this_window \in DOMAIN klines
    /\ this_vote # "NEUTRAL"
    /\ LET ws         == this_window
           signals    == windows[ws]
           kline      == klines[ws]
           is_correct == this_vote = kline.result
           head       == score_window_head(script, results, this_vote, is_correct)
           scored     == IF script = "verify_accuracy"
                         THEN [res |-> head, err |-> FALSE]
                         ELSE score_signals(script, head, signals, 1, is_correct)
       IN  /\ details' = Append(details,
                  detail_entry(script, ws, this_vote, kline, is_correct, signals))
           /\ by_hour' = IF script \in {"analyze_24h", "analyze_48h"}
                         THEN bump_default(by_hour, hour_of(ws), is_correct)
                         ELSE by_hour
           /\ by_day' = IF script = "analyze_48h"
                        THEN bump_default(by_day, date_str(ws), is_correct)
                        ELSE by_day
           /\ total' = IF script = "verify_accuracy" THEN total + 1 ELSE total
           /\ results' = scored.res
           /\ pc' = IF scored.err THEN "crashed" ELSE pc
    /\ pos' = pos + 1
    /\ UNCHANGED <<script, df, source, windows, klines, current_start,
                   requests, fn_in, fn_out,
                   printed>>

\* The loop is over; verify_accuracy.py computes its per-type stats
\* when total > 0; the report is printed.
EndLoop ==
    /\ pc = "score"
    /\ pos > Len(sorted_windows)
    /\ results' =
          IF script = "verify_accuracy" /\ total > 0
          THEN LET stats == analyze_by_recommendation_type(
                                [k \in stat_keys |-> Zero], DOMAIN windows,
                                windows, klines)
               IN  [k \in DOMAIN results \cup stat_keys |->
                       IF k \in stat_keys THEN stats[k] ELSE results[k]]
          ELSE results
    /\ printed' = report(script, results', by_hour, by_day)
    /\ pc' = "done"
    /\ UNCHANGED <<script, df, source, windows, klines, current_start,
                   requests, by_hour, by_day, details, total, pos, fn_in,
                   fn_out>>

Next ==
    \/ NoData
    \/ Group
    \/ NoActionable
    \/ BeginFetch
    \/ FetchLoopExit
    \/ FetchFail
    \/ FetchEmpty
    \/ FetchPage
    \/ FetchRaise
    \/ FetchOnce
    \/ SkipNoOutcome
    \/ SkipNeutral
    \/ ScoreWindow
    \/ EndLoop

-----------------------------------------------------------------------------
(* Inputs of the run *)

MaxRows == 2

SeqsUpTo(S, n) == UNION {[1..k -> S] : k \in 0..n}

\* Instants in the windows that start at 00:00 and at 01:00 of the first
\* day of the epoch.
TsPool ==
    { [ms |-> 60000, frac |-> FALSE],
      [ms |-> 5 * window_size - 1, frac |-> TRUE] }

KindPool ==
    { [signal |-> "BUY UP",   recommendation |-> "STRONG_EARLY", regime |-> "TREND_UP"],
      [signal |-> "BUY DOWN", recommendation |-> "GOOD_MID",     regime |-> "total"],
      [signal |-> "BUY DOWN", recommendation |-> "OPTIONAL_LATE", regime |-> "RANGE"],
      [signal |-> "NO TRADE", recommendation |-> "GOOD",         regime |-> "CHOP"] }

RowPool ==
    { [timestamp |-> t, signal |-> k.signal,
       recommendation |-> k.recommendation, regime |-> k.regime] :
      t \in TsPool, k \in KindPool }

\* Candles as the source sends them, prices as decimal strings: one that
\* closes above its open and one that closes where it opened.
CandlePool ==
    { [open |-> "100.00", close |-> "105.00"],
      [open |-> "100.00", close |-> "100.0"] }

\* Open times the source may hold a candle for: the two windows and one
\* window between them.
TimePool == {0, window_size, 4 * window_size}

SourcePool == UNION {[T -> CandlePool] : T \in SUBSET TimePool}

Init ==
    /\ script \in Scripts
    /\ df \in SeqsUpTo(RowPool, MaxRows)
    /\ source \in SourcePool
    /\ pc = "load"
    /\ windows = <<>>
    /\ klines = <<>>
    /\ current_start = 0
    /\ requests = <<>>
    /\ results = <<>>
    /\ by_hour = <<>>
    /\ by_day = <<>>
    /\ details = <<>>
    /\ total = 0
    /\ pos = 0
    /\ fn_in = <<>>
    /\ fn_out = <<>>
    /\ printed = <<>>

Spec == Init /\ [][Next]_vars

-----------------------------------------------------------------------------
(* determine_vote on its own: any list of signals, each script's version *)

MaxSignals == 3

SignalPool == {"BUY UP", "BUY DOWN", "NO TRADE", "UP_OR_DOWN"}

idle_run ==
    /\ df = <<>>
    /\ source = <<>>
    /\ windows = <<>>
    /\ klines = <<>>
    /\ current_start = 0
    /\ requests = <<>>
    /\ results = <<>>
    /\ by_hour = <<>>
    /\ by_day = <<>>
    /\ details = <<>>
    /\ total = 0
    /\ pos = 0
    /\ printed = <<>>

InitVote ==
    /\ script \in Scripts
    /\ fn_in \in SeqsUpTo({[signal |-> sg] : sg \in SignalPool}, MaxSignals)
    /\ fn_out = ""
    /\ pc = "call"
    /\ idle_run

CallDetermineVote ==
    /\ pc = "call"
    /\ fn_out' = determine_vote(script, fn_in)
    /\ pc' = "voted"
    /\ UNCHANGED <<script, df, source, windows, klines, current_start,
                   requests, results, by_hour, by_day, details, total, pos,
                   fn_in,
                   printed>>

SpecVote == InitVote /\ [][CallDetermineVote]_vars

-----------------------------------------------------------------------------
(* get_window_start on its own: instants around the window boundaries *)

MaxWindowIndex == 6

OffsetPool == {0, 1, 450000, window_size - 1}

InitWindow ==
    /\ script \in {"analyze_24h"}
    /\ fn_in \in { [ms |-> k * window_size + o, frac |-> f] :
                      k \in (0 - MaxWindowIndex)..MaxWindowIndex,
                      o \in OffsetPool, f \in BOOLEAN }
    /\ fn_out = 0
    /\ pc = "call"
    /\ idle_run

CallGetWindowStart ==
    /\ pc = "call"
    /\ fn_out' = get_window_start(fn_in)
    /\ pc' = "indexed"
    /\ UNCHANGED <<script, df, source, windows, klines, current_start,
                   requests, results, by_hour, by_day, details, total, pos,
                   fn_in,
                   printed>>

\* datetime.utcfromtimestamp(window_start / 1000): the instant of a window
\* start, which is a whole number of milliseconds.
utcfromtimestamp(ms) == [ms |-> ms, frac |-> FALSE]

\* get_window_start applied to the instant of the value it returned.
CallGetWindowStartAgain ==
    /\ pc = "indexed"
    /\ fn_out' = get_window_start(utcfromtimestamp(fn_out))
    /\ pc' = "reindexed"
    /\ UNCHANGED <<script, df, source, windows, klines, current_start,
                   requests, results, by_hour, by_day, details, total, pos,
                   fn_in,
                   printed>>

NextWindow ==
    \/ CallGetWindowStart
    \/ CallGetWindowStartAgain

SpecWindow == InitWindow /\ [][NextWindow]_vars

-----------------------------------------------------------------------------
(* The streak scan of the report on its own: any detail log *)

MaxLog == 6

no_streak == [max_win |-> 0, max_lose |-> 0, current_win |-> 0, current_lose |-> 0]

\* scan_streaks without the reset of the opposite run counter.
RECURSIVE scan_streaks_no_reset(_, _, _)
scan_streaks_no_reset(log, i, st) ==
    IF i > Len(log) THEN st
    ELSE IF log[i].correct
         THEN scan_streaks_no_reset(log, i + 1,
                  [st EXCEPT !.current_win = st.current_win + 1,
                             !.max_win = max2(st.max_win, st.current_win + 1)])
         ELSE scan_streaks_no_reset(log, i + 1,
                  [st EXCEPT !.current_lose = st.current_lose + 1,
                             !.max_lose = max2(st.max_lose, st.current_lose + 1)])

streaks_no_reset(log) ==
    LET st == scan_streaks_no_reset(log, 1, no_streak)
    IN  [max_win |-> st.max_win, max_lose |-> st.max_lose]

\* for d in details: if d['correct']: ... else: ...
RECURSIVE scan_streaks(_, _, _)
scan_streaks(log, i, st) ==
    IF i > Len(log) THEN st
    ELSE IF log[i].correct
         THEN scan_streaks(log, i + 1,
                  [st EXCEPT !.current_win = st.current_win + 1,
                             !.current_lose = 0,
                             !.max_win = max2(st.max_win, st.current_win + 1)])
         ELSE scan_streaks(log, i + 1,
                  [st EXCEPT !.current_lose = st.current_lose + 1,
                             !.current_win = 0,
                             !.max_lose = max2(st.max_lose, st.current_lose + 1)])

\* max_win, max_lose after the loop
streaks(log) ==
    LET st == scan_streaks(log, 1, no_streak)
    IN  [max_win |-> st.max_win, max_lose |-> st.max_lose]

InitStreaks ==
    /\ script \in {"analyze_24h", "verify_accuracy"}
    /\ fn_in \in SeqsUpTo({[correct |-> b] : b \in BOOLEAN}, MaxLog)
    /\ fn_out = no_streak
    /\ pc = "call"
    /\ idle_run

ScanStreaks ==
    /\ pc = "call"
    /\ fn_out' = streaks(fn_in)
    /\ pc' = "scanned"
    /\ UNCHANGED <<script, df, source, windows, klines, current_start,
                   requests, results, by_hour, by_day, details, total, pos,
                   fn_in,
                   printed>>

SpecStreaks == InitStreaks /\ [][ScanStreaks]_vars

-----------------------------------------------------------------------------
(* The scoring loop run twice on the same windows and outcome map *)

\* What one run of the scoring loop leaves behind.
run_statistics ==
    [results |-> results, by_hour |-> by_hour, by_day |-> by_day,
     details |-> details, total |-> total, streaks |-> streaks(details),
     printed |-> printed]

\* The statistics of the finished run are set aside and the scoring loop
\* starts again on the same active_windows and klines.
RunAgain ==
    /\ pc = "done"
    /\ fn_out = <<>>
    /\ fn_in' = [windows |-> windows, klines |-> klines]
    /\ fn_out' = run_statistics
    /\ results' = init_results(script)
    /\ by_hour' = <<>>
    /\ by_day' = <<>>
    /\ details' = <<>>
    /\ total' = 0
    /\ printed' = <<>>
    /\ pos' = 1
    /\ pc' = "score"
    /\ UNCHANGED <<script, df, source, windows, klines, current_start,
                   requests>>

NextTwice ==
    \/ Next
    \/ RunAgain

SpecTwice == Init /\ [][NextTwice]_vars

-----------------------------------------------------------------------------
(* group_signals_by_window on its own: a list of rows and a reordering of it *)

Orderings(n) ==
    {f \in [1..n -> 1..n] : \A i, j \in 1..n : f[i] = f[j] => i = j}

\* The rows of df in the order f gives.
reordered(rows, f) == [i \in 1..Len(rows) |-> rows[f[i]]]

InitGroup ==
    /\ script \in Scripts
    /\ fn_in \in UNION { [rows : {rows}, order : Orderings(Len(rows))] :
                            rows \in SeqsUpTo(RowPool, MaxRows) }
    /\ fn_out = <<>>
    /\ pc = "call"
    /\ idle_run

\* group_signals_by_window on the rows and on the reordered rows
CallGroupSignals ==
    /\ pc = "call"
    /\ fn_out' =
          [rows      |-> active_of(group_signals_by_window(script, fn_in.rows)),
           reordered |-> active_of(group_signals_by_window(script,
                             reordered(fn_in.rows, fn_in.order)))]
    /\ pc' = "regrouped"
    /\ UNCHANGED <<script, df, source, windows, klines, current_start,
                   requests, results, by_hour, by_day, details, total, pos,
                   fn_in, printed>>

SpecGroup == InitGroup /\ [][CallGroupSignals]_vars

-----------------------------------------------------------------------------
(* The run against a source that holds every candle of the fetch range, *)
(* over a range of more than one page                                   *)

\* Rows of the first window: one that is kept and votes for neither side,
\* one that is not actionable.
NearPool ==
    { [timestamp |-> [ms |-> 60000, frac |-> FALSE], signal |-> "NO TRADE",
       recommendation |-> "GOOD", regime |-> "CHOP"],
      [timestamp |-> [ms |-> 60000, frac |-> FALSE], signal |-> "BUY DOWN",
       recommendation |-> "OPTIONAL_LATE", regime |-> "RANGE"] }

\* A row PageLimit + 1 windows later: the range from the first window to
\* its window holds PageLimit + 2 window starts.
FarRow ==
    [timestamp |-> [ms |-> (PageLimit + 1) * window_size + 60000, frac |-> FALSE],
     signal |-> "BUY UP", recommendation |-> "STRONG_EARLY", regime |-> "TREND_UP"]

\* A source with a candle for every 15-minute window start from the first
\* to the last active window of the rows.
full_source(rows) ==
    LET starts == DOMAIN active_of(group_signals_by_window("analyze_24h", rows))
        lo     == CHOOSE t \in starts : \A u \in starts : t <= u
        hi     == CHOOSE t \in starts : \A u \in starts : u <= t
    IN  IF starts = {} THEN <<>>
        ELSE [t \in {k * window_size :
                        k \in (lo \div window_size)..(hi \div window_size)} |->
                 [open |-> "100.00", close |-> "105.00"]]

InitFull ==
    /\ script \in Scripts
    /\ df \in {near \o far : near \in SeqsUpTo(NearPool, MaxRows),
                              far \in {<<>>, <<FarRow>>}}
    /\ source \in {full_source(df), <<>>}
    /\ pc = "load"
    /\ windows = <<>>
    /\ klines = <<>>
    /\ current_start = 0
    /\ requests = <<>>
    /\ results = <<>>
    /\ by_hour = <<>>
    /\ by_day = <<>>
    /\ details = <<>>
    /\ total = 0
    /\ pos = 0
    /\ fn_in = <<>>
    /\ fn_out = <<>>
    /\ printed = <<>>

SpecFull == InitFull /\ [][Next]_vars

-----------------------------------------------------------------------------
(* The per-record loop of one scored window on its own *)

\* Recommendations that group_signals_by_window keeps: with and without a
\* timing token, with two strength tokens, with two timing tokens.
RecPool ==
    {"STRONG_EARLY", "GOOD_MID", "GOOD", "STRONG_GOOD_LATE", "GOOD_EARLY_LATE"}

RegimePool == {"TREND_UP", "CHOP", "total"}

EntryPool ==
    { signal_entry("analyze_24h",
          [signal |-> "BUY UP", recommendation |-> rec, regime |-> regime]) :
      rec \in RecPool, regime \in RegimePool }

InitScore ==
    /\ script \in Scripts
    /\ fn_in \in [signals : SeqsUpTo(EntryPool, MaxRows), is_correct : BOOLEAN]
    /\ fn_out = <<>>
    /\ pc = "call"
    /\ idle_run

\* for s in signals: ... on a fresh registry; in verify_accuracy.py the
\* loop is the one of analyze_by_recommendation_type, on its stats.
ScoreSignals ==
    /\ pc = "call"
    /\ fn_out' = score_signals(script,
                     IF script = "verify_accuracy"
                     THEN [k \in stat_keys |-> Zero]
                     ELSE init_results(script),
                     fn_in.signals, 1, fn_in.is_correct)
    /\ pc' = "scored"
    /\ UNCHANGED <<script, df, source, windows, klines, current_start,
                   requests, results, by_hour, by_day, details, total, pos,
                   fn_in, printed>>

SpecScore == InitScore /\ [][ScoreSignals]_vars

-----------------------------------------------------------------------------
(* The run against a source that may answer a request with any of its *)
(* candles, whatever the requested range                              *)

MaxRequests == 3

\* Two rows in the first window, for and against, and one four windows
\* later.
SpanPool ==
    { [timestamp |-> [ms |-> 60000, frac |-> FALSE], signal |-> "BUY UP",
       recommendation |-> "STRONG_EARLY", regime |-> "TREND_UP"],
      [timestamp |-> [ms |-> 60000, frac |-> FALSE], signal |-> "BUY DOWN",
       recommendation |-> "GOOD_MID", regime |-> "CHOP"],
      [timestamp |-> [ms |-> 4 * window_size + 60000, frac |-> FALSE],
       signal |-> "BUY DOWN", recommendation |-> "GOOD_MID", regime |-> "CHOP"] }

InitAnySource ==
    /\ script \in Scripts
    /\ df \in SeqsUpTo(SpanPool, MaxRows)
    /\ source \in UNION {[T -> {[open |-> "100.00", close |-> "105.00"]}] :
                            T \in SUBSET {0, 4 * window_size}}
    /\ pc = "load"
    /\ windows = <<>>
    /\ klines = <<>>
    /\ current_start = 0
    /\ requests = <<>>
    /\ results = <<>>
    /\ by_hour = <<>>
    /\ by_day = <<>>
    /\ details = <<>>
    /\ total = 0
    /\ pos = 0
    /\ fn_in = <<>>
    /\ fn_out = <<>>
    /\ printed = <<>>

\* One pass of the while loop with a status 200 and a non-empty data that
\* the code takes as it comes: it does not compare the open times with
\* the startTime and endTime it asked for.
FetchAnyPage ==
    /\ pc = "fetch"
    /\ script \in Paginated
    /\ current_start < fetch_end
    /\ Len(requests) < MaxRequests
    /\ \E data \in SUBSET DOMAIN source :
          /\ data # {}
          /\ requests' = Append(requests,
                 sent(request_of(current_start, fetch_end), HTTP_OK, data))
          /\ klines' = store_page(klines, source, data)
          /\ current_start' = next_start(klines')
    /\ UNCHANGED <<script, df, source, pc, windows, results, by_hour, by_day,
                   details, total, pos, fn_in, fn_out, printed>>

NextAnySource ==
    \/ Next
    \/ FetchAnyPage

SpecAnySource == InitAnySource /\ [][NextAnySource]_vars

-----------------------------------------------------------------------------
(* The outcome built from one candle on its own: any pair of prices *)

PricePool ==
    {"100.00", "100.0", "105.00", "100.01", "99.5", "9.75", "0.5", "1000"}

InitOutcome ==
    /\ script \in Scripts
    /\ fn_in \in [open : PricePool, close : PricePool]
    /\ fn_out = <<>>
    /\ pc = "call"
    /\ idle_run

\* all_klines[open_time] = {...} for one k of data
BuildOutcome ==
    /\ pc = "call"
    /\ fn_out' = outcome_of(fn_in)
    /\ pc' = "built"
    /\ UNCHANGED <<script, df, source, windows, klines, current_start,
                   requests, results, by_hour, by_day, details, total, pos,
                   fn_in,
                   printed>>

SpecOutcome == InitOutcome /\ [][BuildOutcome]_vars

-----------------------------------------------------------------------------
(* Properties *)

actionable(row) ==
    In("STRONG", row.recommendation) \/ In("GOOD", row.recommendation)

in_window(row, ws) == get_window_start(row.timestamp) = ws

\* The rows of df that fall in window ws, in file order.
all_rows(ws) == SelectSeq(df, LAMBDA row : in_window(row, ws))

\* Those of them whose recommendation contains STRONG or GOOD.
kept_rows(ws) == SelectSeq(df, LAMBDA row : in_window(row, ws) /\ actionable(row))

entries(rows) == [i \in 1..Len(rows) |-> signal_entry(script, rows[i])]

\* C1 as stated: a window that holds an actionable record keeps all the
\* input records that fall in it, the non-actionable ones included.
C1_AllRecordsKept ==
    pc # "load" =>
        \A ws \in DOMAIN windows : windows[ws] = entries(all_rows(ws))

\* C1, amended: after group_signals_by_window the windows are exactly the
\* window starts of the records whose recommendation contains STRONG or
\* GOOD, and each window holds exactly those records, in input order; a
\* record whose recommendation contains neither token is in no window, so
\* determine_vote and the per-record scoring never see it.
C1_OnlyActionableKept ==
    pc # "load" =>
        /\ DOMAIN windows =
              {get_window_start(df[i].timestamp) :
                  i \in {j \in 1..Len(df) : actionable(df[j])}}
        /\ \A ws \in DOMAIN windows :
              /\ windows[ws] = entries(kept_rows(ws))
              /\ \A i \in 1..Len(windows[ws]) :
                    In("STRONG", windows[ws][i].rec) \/ In("GOOD", windows[ws][i].rec)

\* An active window lost a non-actionable record, and its vote is not the
\* vote over all the records of the window.
C1_Witness ==
    /\ pc = "grouped"
    /\ \E ws \in DOMAIN windows :
          /\ Len(all_rows(ws)) > Len(windows[ws])
          /\ determine_vote(script, windows[ws]) #
                determine_vote(script, entries(all_rows(ws)))

vote_of(ws) == determine_vote(script, windows[ws])

\* The windows that have a known outcome and a vote that is not NEUTRAL.
scorable == {ws \in DOMAIN windows : ws \in DOMAIN klines /\ vote_of(ws) # "NEUTRAL"}

\* The windows the scoring loop has passed.
passed == {sorted_windows[i] : i \in 1..(pos - 1)}

total_sum == results["total"].correct + results["total"].wrong

\* C2: during and after the scoring loop total.correct + total.wrong is
\* the number of windows passed so far that have a known outcome and a
\* non-NEUTRAL vote: each such window adds exactly 1, every other window 0,
\* and the final total is the number of such windows.
C2_TotalCountsScorableWindows ==
    pc \in {"score", "done"} =>
        total_sum = Cardinality(scorable \cap passed)

contains_up(signals) ==
    Cardinality({i \in 1..Len(signals) : In("UP", signals[i].signal)})

contains_down(signals) ==
    Cardinality({i \in 1..Len(signals) : In("DOWN", signals[i].signal)})

\* C3: determine_vote returns UP when more records have a signal that
\* contains 'UP' than have one that contains 'DOWN', DOWN when fewer,
\* NEUTRAL exactly when the two counts are equal, and nothing else.
C3_VoteIsContainmentMajority ==
    pc = "voted" =>
        LET up == contains_up(fn_in)
            dn == contains_down(fn_in)
        IN  /\ fn_out \in {"UP", "DOWN", "NEUTRAL"}
            /\ (up > dn) => fn_out = "UP"
            /\ (up < dn) => fn_out = "DOWN"
            /\ (up = dn) <=> fn_out = "NEUTRAL"

nothing_scored ==
    /\ results' = results
    /\ by_hour' = by_hour
    /\ by_day' = by_day
    /\ details' = details
    /\ total' = total

\* C4: the loop step of a window whose vote is NEUTRAL changes no bucket
\* (total, strength, timing, regime, vote direction, hour, day) and appends
\* nothing to the detail log, with or without an outcome for the window;
\* the per-type pass of verify_accuracy.py leaves its buckets at zero when
\* every window is NEUTRAL.
C4_NeutralScoresNothing ==
    /\ [][(in_loop /\ this_vote = "NEUTRAL") => nothing_scored]_vars
    /\ [](pc = "done" /\ (\A ws \in DOMAIN windows : vote_of(ws) = "NEUTRAL")
            => /\ \A k \in DOMAIN results : results[k] = Zero
               /\ by_hour = <<>> /\ by_day = <<>> /\ details = <<>>)

\* The loop has passed a NEUTRAL window that has an outcome, and a later
\* window was scored.
C4_Witness ==
    /\ pc = "done"
    /\ \E ws \in DOMAIN windows :
          /\ vote_of(ws) = "NEUTRAL"
          /\ ws \in DOMAIN klines
          /\ \E later \in scorable : later > ws
    /\ Len(details) = 1

last_request == requests[Len(requests)]

failed == requests # <<>> /\ last_request.status # HTTP_OK

\* The open times of the candles of every response so far.
fetched == UNION {requests[i].got : i \in 1..Len(requests)}

fetched_kept ==
    \A t \in fetched : t \in DOMAIN klines /\ klines[t] = outcome_of(source[t])

max_of(S) == CHOOSE t \in S : \A u \in S : u <= t

another_request ==
    /\ script \in Paginated
    /\ fetched # {}
    /\ Len(requests') = Len(requests) + 1

\* C6 as stated: after a page with a candle, the next request starts at
\* 1 + the largest window start fetched so far.
C6_NextStartIsMaxPlusOne ==
    [][another_request =>
          requests'[Len(requests')].startTime = 1 + max_of(fetched)]_vars

\* C6, amended: after a page with a candle, the next request starts at the
\* largest window start fetched so far plus one window (900000 ms).
C6_NextStartIsMaxPlusWindow ==
    [][another_request =>
          requests'[Len(requests')].startTime = max_of(fetched) + window_size]_vars

\* A second request was sent after a page with candles.
C6_Witness ==
    /\ script \in Paginated
    /\ Len(requests) >= 2
    /\ requests[1].got # {}

\* The paginated fetch has seen an empty page or a non-200 status.
stopped ==
    /\ script \in Paginated
    /\ requests # <<>>
    /\ (last_request.status # HTTP_OK \/ last_request.got = {})

\* C7: once a page is empty or its status is not 200, no request follows,
\* the outcomes of the earlier pages stay in the map that is returned, and
\* the scoring loop passes every active window from that request's
\* startTime on without an error and without a change to any bucket.
C7_StopKeepsFetchedAndSkipsRest ==
    /\ [](stopped => pc \in {"score", "done"} /\ fetched_kept)
    /\ [][stopped =>
             /\ requests' = requests
             /\ klines' = klines
             /\ (in_loop /\ this_window >= last_request.startTime) =>
                    nothing_scored /\ pc' = "score" /\ pos' = pos + 1]_vars

\* An empty page ended the fetch after a page with candles, and the loop
\* has passed an active window beyond that point.
C7_Witness ==
    /\ pc = "done"
    /\ stopped
    /\ last_request.got = {} /\ last_request.status = HTTP_OK
    /\ fetched # {}
    /\ \E ws \in DOMAIN windows : ws >= last_request.startTime

\* C8: the loop step of a window whose start is not a key of the outcome
\* map changes no bucket, appends no detail entry, raises no error and
\* moves on to the next window; at the end every window with an outcome
\* and a non-NEUTRAL vote has its detail entry.
C8_MissingOutcomeSkipped ==
    /\ [][(in_loop /\ this_window \notin DOMAIN klines) =>
             nothing_scored /\ pc' = "score" /\ pos' = pos + 1]_vars
    /\ [](pc = "done" => Len(details) = Cardinality(scorable))

\* A window without an outcome was passed and a later window was scored.
C8_Witness ==
    /\ pc = "done"
    /\ \E w1 \in DOMAIN windows \ DOMAIN klines :
          \E w2 \in scorable : w1 < w2
    /\ Len(details) = 1

no_actionable_rows == \A i \in 1..Len(df) : ~actionable(df[i])

\* C9: when no row is actionable, so that no window is active, the run
\* returns right after grouping: no request is sent, no outcome is stored,
\* no bucket exists and no window is scored.
C9_NoActiveWindowEndsEarly ==
    /\ []((pc # "load" /\ no_actionable_rows) =>
             /\ pc \in {"grouped", "returned"}
             /\ requests = <<>> /\ klines = <<>> /\ results = <<>>
             /\ details = <<>> /\ total = 0)
    /\ [][(pc = "grouped" /\ no_actionable_rows) => pc' = "returned"]_vars

\* Rows were loaded, none of them actionable, and main() has returned.
C9_Witness ==
    /\ pc = "returned"
    /\ Len(df) > 0
    /\ no_actionable_rows

C11_WindowStartIdempotent ==
    [][(pc = "indexed" /\ pc' = "reindexed") => fn_out' = fn_out]_vars

\* A timestamp before the epoch and inside a window was indexed, and its
\* window start was indexed again.
C11_Witness ==
    /\ pc = "reindexed"
    /\ fn_in.ms < 0
    /\ fn_in.frac
    /\ fn_out # fn_in.ms
    /\ fn_out = get_window_start(fn_in)

\* Every counter of a registry d is an integer >= 0.
counters_nat(d) ==
    \A k \in DOMAIN d : d[k].correct \in Nat /\ d[k].wrong \in Nat

\* No key of d is lost in e and no counter of d is larger than in e.
grown(d, e) ==
    \A k \in DOMAIN d :
        /\ k \in DOMAIN e
        /\ e[k].correct >= d[k].correct
        /\ e[k].wrong >= d[k].wrong

\* C12: at every point of a scoring run every bucket (the registry, the
\* hour and the day buckets) has correct >= 0 and wrong >= 0; no step
\* removes a bucket or decreases a counter; and in verify_accuracy.py the
\* counter total equals correct + wrong at every point.
C12_BucketsNonNegativeMonotone ==
    /\ [](/\ counters_nat(results) /\ counters_nat(by_hour) /\ counters_nat(by_day)
          /\ total \in Nat
          /\ (script = "verify_accuracy" /\ pc \in {"score", "done"})
                => total = total_sum)
    /\ [][/\ grown(results, results') /\ grown(by_hour, by_hour')
          /\ grown(by_day, by_day')
          /\ total' >= total]_vars

\* verify_accuracy.py has scored one window as correct and one as wrong.
C12_Witness ==
    /\ pc = "done"
    /\ script = "verify_accuracy"
    /\ total = 2
    /\ results["total"] = [correct |-> 1, wrong |-> 1]

\* The length of the longest run of consecutive entries of log whose
\* correct flag is b; 0 when there is none.
longest_run(log, b) ==
    LET runs == {r \in (1..Len(log)) \X (1..Len(log)) :
                    r[1] <= r[2] /\ \A k \in r[1]..r[2] : log[k].correct = b}
        lens == {r[2] - r[1] + 1 : r \in runs} \cup {0}
    IN  CHOOSE n \in lens : \A m \in lens : m <= n

example_log ==
    <<[correct |-> TRUE], [correct |-> TRUE], [correct |-> FALSE],
      [correct |-> TRUE], [correct |-> TRUE], [correct |-> TRUE]>>

\* C13: for every detail log the streak scan returns the length of the
\* longest run of consecutive correct entries as the best winning streak
\* and the length of the longest run of consecutive incorrect entries as
\* the worst losing streak, 0 and 0 for the empty log, 3 and 1 for
\* [correct, correct, wrong, correct, correct, correct].
C13_StreaksAreLongestRuns ==
    pc = "scanned" =>
        /\ fn_out.max_win = longest_run(fn_in, TRUE)
        /\ fn_out.max_lose = longest_run(fn_in, FALSE)
        /\ fn_in = <<>> => fn_out = [max_win |-> 0, max_lose |-> 0]
        /\ fn_in = example_log => fn_out = [max_win |-> 3, max_lose |-> 1]

\* The log of the example was scanned.
C13_Witness ==
    /\ pc = "scanned"
    /\ fn_in = example_log
    /\ fn_out = [max_win |-> 3, max_lose |-> 1]

\* The prices of the pool as numbers, in hundredths.
price(s) ==
    CASE s = "100.00" -> 10000 [] s = "100.0" -> 10000 [] s = "105.00" -> 10500
      [] s = "100.01" -> 10001 [] s = "99.5"   -> 9950  [] s = "9.75"   -> 975
      [] s = "0.5"    -> 50    [] s = "1000"   -> 100000

\* C14: the outcome built from a candle has result UP if and only if its
\* close price is greater than its open price, as numbers; a candle whose
\* close equals its open has result DOWN, and so has one that closes lower.
C14_UpIffCloseAboveOpen ==
    pc = "built" =>
        /\ fn_out.result \in {"UP", "DOWN"}
        /\ fn_out.result = "UP" <=> price(fn_in.close) > price(fn_in.open)
        /\ price(fn_in.close) = price(fn_in.open) => fn_out.result = "DOWN"
        /\ fn_out.open = price(fn_in.open)
        /\ fn_out.close = price(fn_in.close)

\* A candle whose close and open are the same price, written differently,
\* was turned into an outcome.
C14_Witness ==
    /\ pc = "built"
    /\ fn_in.open # fn_in.close
    /\ price(fn_in.open) = price(fn_in.close)
    /\ fn_out.result = "DOWN"

\* A bucket b has a percentage in the report r under key k of table tbl.
has_pct(tbl, k) == k \in DOMAIN tbl /\ "pct" \in DOMAIN tbl[k]

\* C15: when the report is printed, a bucket whose correct + wrong is 0
\* has no percentage in it: not in the breakdown lines, not in the hour and
\* day lines, and not in the STRONG, GOOD, UP-vote and DOWN-vote rows of
\* the historical comparison table.
C15_NoPercentageForEmptyBucket ==
    (pc = "done" /\ printed # <<>>) =>
        /\ \A k \in DOMAIN results :
              count_of(results[k]) = 0 =>
                  /\ ~has_pct(printed.lines, k)
                  /\ ~has_pct(printed.comparison, k)
        /\ \A h \in DOMAIN by_hour :
              count_of(by_hour[h]) = 0 => ~has_pct(printed.by_hour, h)
        /\ \A dy \in DOMAIN by_day :
              count_of(by_day[dy]) = 0 => ~has_pct(printed.by_day, dy)

kept_of(rows, ws) ==
    SelectSeq(rows, LAMBDA row : in_window(row, ws) /\ actionable(row))

\* C17: for every list of rows and every reordering of it,
\* group_signals_by_window gives the same set of active window starts for
\* both, and each window's list holds its retained records in the relative
\* order they have in the list that was grouped, not re-sorted.
C17_WindowSetOrderFreeListsInInputOrder ==
    pc = "regrouped" =>
        LET there == reordered(fn_in.rows, fn_in.order)
        IN  /\ DOMAIN fn_out.rows = DOMAIN fn_out.reordered
            /\ \A ws \in DOMAIN fn_out.rows :
                  fn_out.rows[ws] = entries(kept_of(fn_in.rows, ws))
            /\ \A ws \in DOMAIN fn_out.reordered :
                  fn_out.reordered[ws] = entries(kept_of(there, ws))

\* Two different records of one window were grouped in both orders: the
\* window is active both times and its list follows the input.
C17_Witness ==
    /\ pc = "regrouped"
    /\ \E ws \in DOMAIN fn_out.rows :
          /\ Len(fn_out.rows[ws]) = 2
          /\ fn_out.rows[ws][1] # fn_out.rows[ws][2]
          /\ fn_out.reordered[ws] = <<fn_out.rows[ws][2], fn_out.rows[ws][1]>>

\* Every request so far was answered with status 200.
never_failed == \A i \in 1..Len(requests) : requests[i].status = HTTP_OK

\* The source holds a candle for every 15-minute window start from the
\* first to the last active window.
covers_range ==
    \A ws \in DOMAIN windows :
        \A k \in (sorted_windows[1] \div window_size)..(ws \div window_size) :
            k * window_size \in DOMAIN source

\* C18: in every script, when the source never fails and holds a candle
\* for every window start from the first to the last active window, every
\* active window has an outcome once the fetch is over, also when the range
\* is longer than one page of 1000 windows.
C18_FullSourceCoversEveryWindow ==
    (pc \in {"score", "done"} /\ never_failed /\ covers_range) =>
        \A ws \in DOMAIN windows : ws \in DOMAIN klines

\* The first token of the ordered list that occurs in rec; "" when none.
first_token(tokens, rec) ==
    LET hits == {i \in 1..Len(tokens) : In(tokens[i], rec)}
    IN  IF hits = {} THEN ""
        ELSE tokens[CHOOSE i \in hits : \A j \in hits : i <= j]

\* How many of the records have k as the first token of the list.
records_with_first(signals, tokens, k) ==
    Cardinality({i \in 1..Len(signals) : first_token(tokens, signals[i].rec) = k})

\* C19: after the per-record loop of a scored window, every strength bucket
\* holds one count for each record whose first token among STRONG, GOOD,
\* OPTIONAL it is, and every timing bucket one count for each record whose
\* first token among EARLY, MID, LATE it is: a record adds to at most one
\* bucket of each kind, and of two timing tokens only the earlier counts.
C19_FirstMatchStrengthAndTiming ==
    pc = "scored" =>
        /\ \A k \in {"STRONG", "GOOD", "OPTIONAL"} \cap DOMAIN fn_out.res :
              count_of(fn_out.res[k]) =
                  records_with_first(fn_in.signals, <<"STRONG", "GOOD", "OPTIONAL">>, k)
        /\ \A k \in {"EARLY", "MID", "LATE"} \cap DOMAIN fn_out.res :
              count_of(fn_out.res[k]) =
                  records_with_first(fn_in.signals, <<"EARLY", "MID", "LATE">>, k)

\* The regime buckets a script registers.
regime_buckets(scr) ==
    {"TREND_UP", "TREND_DOWN", "RANGE", "CHOP"} \cap bucket_keys(scr)

\* C20: after the per-record loop of a scored window, every registered
\* regime bucket holds one count for each record of the window whose regime
\* is its name, whether or not the record's recommendation has a strength
\* token or a timing token.
C20_RegimeCountsEveryRecord ==
    pc = "scored" =>
        \A k \in regime_buckets(script) :
            count_of(fn_out.res[k]) =
                Cardinality({i \in 1..Len(fn_in.signals) :
                                fn_in.signals[i].regime = k})

\* C21: for every list of records the determine_vote of the script that
\* ran returns the vote that the determine_vote of each of the other three
\* scripts returns for the same list, also when a signal contains both
\* 'UP' and 'DOWN'.
C21_FourDetermineVotesAgree ==
    pc = "voted" =>
        \A scr \in Scripts : determine_vote(scr, fn_in) = fn_out

\* The sum of one counter over the buckets of a registry.
RECURSIVE sum_of(_, _, _)
sum_of(d, keys, field) ==
    IF keys = {} THEN 0
    ELSE LET k == CHOOSE x \in keys : TRUE
         IN  d[k][field] + sum_of(d, keys \ {k}, field)

\* The window starts of the detail log are strictly ascending.
details_ascending ==
    \A i \in 1..(Len(details) - 1) : details[i].time < details[i + 1].time

\* C22: at every point of the scoring loop of a script that keeps the vote
\* buckets, total.correct = UP_vote.correct + DOWN_vote.correct and the
\* same for wrong; where hour buckets are kept, both equal the sums over
\* the hour buckets; and the detail log has total.correct + total.wrong
\* entries, in strictly ascending order of window start.
C22_TotalEqualsVotesEqualsHours ==
    (pc \in {"score", "done"} /\ script # "verify_accuracy") =>
        /\ \A field \in {"correct", "wrong"} :
              /\ results["total"][field] =
                    results["UP_vote"][field] + results["DOWN_vote"][field]
              /\ script \in {"analyze_24h", "analyze_48h"} =>
                    results["total"][field] = sum_of(by_hour, DOMAIN by_hour, field)
        /\ Len(details) = total_sum
        /\ details_ascending

\* The records with a regime that is no key of any registry.
without_regime(signals) ==
    [i \in 1..Len(signals) |-> [signals[i] EXCEPT !.regime = "UNKNOWN"]]

\* C23: the regime update of the per-record loop changes regime buckets
\* only: every bucket outside the regime dimension (total, strength,
\* timing, vote direction) ends as it does for the same records without a
\* regime, whatever the regime values are, the key of another bucket
\* included, and the loop raises no error.
C23_RegimeUpdateTouchesRegimeOnly ==
    pc = "scored" =>
        LET fresh == IF script = "verify_accuracy"
                     THEN [k \in stat_keys |-> Zero]
                     ELSE init_results(script)
            base  == score_signals(script, fresh, without_regime(fn_in.signals),
                                   1, fn_in.is_correct)
        IN  /\ ~fn_out.err
            /\ \A k \in DOMAIN fn_out.res \ {"TREND_UP", "TREND_DOWN", "RANGE", "CHOP"} :
                  fn_out.res[k] = base.res[k]

\* C24: in the paginated fetch every request after the first has a
\* startTime strictly greater than that of the request before it, whatever
\* the source answers, a non-empty page of candles that all open before
\* the requested startTime included; so the loop reaches its end_time.
C24_StartTimeStrictlyIncreases ==
    [][(script \in Paginated /\ requests # <<>>
           /\ Len(requests') = Len(requests) + 1) =>
          requests'[Len(requests')].startTime > last_request.startTime]_vars

====
